---- MODULE Spec2Model ----
(***************************************************************************)
(* Model of the providence-analytics Analyzer driver                       *)
(* (launch-providence-with-extend-docs.js, lines 126-481): the lifecycle   *)
(* execute = _prepare -> _traverse -> _finalize, the compatibility check    *)
(* between a target and a reference project, the result normalizer and the *)
(* per-file traversal loop.                                                *)
(*                                                                         *)
(* JavaScript objects are functions from property names to values; a       *)
(* property that is not set is absent from the DOMAIN.  null is the string  *)
(* "null".  A queryOutput is either [string |-> s] (a sentinel string) or   *)
(* [array |-> <<entries>>].  An array is a tuple, an array of strings whose  *)
(* order does not matter a set.                                            *)
(***************************************************************************)
EXTENDS Naturals, Sequences, FiniteSets, TLC

VARIABLES
    fs,          \* path -> parsed package.json, for the paths that hold one
    astAnalysis, \* the analyzer's per-file analysis: file name -> [result, meta]
    analyzer,    \* the fields set on the Analyzer instance (this.*)
    cache,       \* the Cache Store: <<analyzerName, identifier>> -> stored report
    calls,       \* the execute() calls made on the instance, in order
    compatOut,   \* the last verdict of a direct checkForMatchCompatibility call
    platform,    \* process.platform
    posixIO      \* the argument and the outcome of a direct posixify call

vars == <<fs, astAnalysis, analyzer, cache, calls, compatOut, platform, posixIO>>

----------------------------------------------------------------------------
(* Bounds *)

\* number of execute() calls made on the Analyzer instance
MaxCalls == 2
\* number of entries of a dependencies / devDependencies object
MaxDeps == 2
\* number of files of a traversed project (specification SpecTraverse)
MaxFiles == 3
\* nesting depth of the values handed to posixify (specification SpecPosixify)
MaxDepth == 3
\* number of execute() calls of the longer series (specification SpecSuccessive)
MaxSuccessive == 3

----------------------------------------------------------------------------
(* JavaScript values *)

Null == "null"

Has(obj, k) == k \in DOMAIN obj

\* `delete obj[k]`
Delete(obj, k) == [x \in DOMAIN obj \ {k} |-> obj[x]]

\* `{...a, ...b}`: b's properties over a's
Spread(a, b) == b @@ a

EmptyObject == [x \in {} |-> TRUE]

\* what kind of value v is, read off the start of its printed form: a
\* string, an array (a tuple), an object: a function of strings, printed as
\* a record when its keys are identifiers and as ("dep-a" :> ...) when one
\* of them ('dep-a', '@lion/core') is not; numbers, booleans, sets and the
\* functions of other values are "other"
TypeOf(v) ==
    LET printed == ToString(v)
        c == Head(printed)
    IN CASE c = "\"" -> "string"
         [] c = "[" -> "object"
         [] c = "<" -> "array"
         [] c = "(" -> IF SubSeq(printed, 2, 2) = "\"" THEN "object" ELSE "other"
         [] OTHER -> "other"

\* the positions of the separators in a path
Separators(file) == {i \in 1..Len(file) : SubSeq(file, i, i) \in {"/", "\\"}}

\* the sequences over S of length at most n
RECURSIVE SeqsUpTo(_, _)
SeqsUpTo(S, n) ==
    IF n = 0 THEN {<<>>}
    ELSE LET shorter == SeqsUpTo(S, n - 1)
         IN shorter \cup {Append(s, x) : s \in shorter, x \in S}

Range(s) == {s[i] : i \in DOMAIN s}

\* no element twice
Injective(s) == \A i, j \in DOMAIN s : s[i] = s[j] => i = j

----------------------------------------------------------------------------
(* semver *)

Version(major, minor) == [major |-> major, minor |-> minor]
\* the caret range ^major.minor.0
Caret(major, minor) == [op |-> "^", major |-> major, minor |-> minor]

\* semver.satisfies(version, range) for caret ranges of major >= 1
semver_satisfies(version, range) ==
    /\ version.major = range.major
    /\ version.minor >= range.minor

----------------------------------------------------------------------------
(* Compatibility checker *)

\* JSON.parse(fs.readFileSync(pathLib.resolve(path, 'package.json')))
ManifestReadable(path) == path \in DOMAIN fs

\* Object.entries(pkg[key] || {})
DepEntries(pkg, key) == IF Has(pkg, key) THEN pkg[key] ELSE <<>>

\* allTargetDeps.find(([name]) => referencePkg.name === name): the index of
\* the first match, 0 when there is none
RECURSIVE FindFrom(_, _, _)
FindFrom(entries, name, i) ==
    IF i > Len(entries) THEN 0
    ELSE IF entries[i][1] = name THEN i
    ELSE FindFrom(entries, name, i + 1)

\* a plausible slip: the regular dependencies come first
allTargetDeps_dependenciesFirst(targetPkg) ==
    DepEntries(targetPkg, "dependencies") \o DepEntries(targetPkg, "devDependencies")

\* lines 263-266: the entries of devDependencies, then those of dependencies
allTargetDeps(targetPkg) ==
    DepEntries(targetPkg, "devDependencies") \o DepEntries(targetPkg, "dependencies")

\* a plausible slip: only the regular dependencies are searched
checkForMatchCompatibility_onlyDeps(referencePath, targetPath) ==
    LET referencePkg == fs[referencePath]
        targetPkg == fs[targetPath]
        deps == DepEntries(targetPkg, "dependencies")
        i == FindFrom(deps, referencePkg.name, 1)
    IN IF i = 0 THEN [compatible |-> FALSE, reason |-> "no-dependency"]
       ELSE IF ~semver_satisfies(referencePkg.version, deps[i][2])
       THEN [compatible |-> FALSE, reason |-> "no-matched-version"]
       ELSE [compatible |-> TRUE]

\* checkForMatchCompatibility, for two readable manifests (an unreadable one
\* makes readFileSync / JSON.parse throw: see checkForMatchCompatibilityThrows)
checkForMatchCompatibility(referencePath, targetPath) ==
    LET referencePkg == fs[referencePath]
        targetPkg == fs[targetPath]
        importEntry == FindFrom(allTargetDeps(targetPkg), referencePkg.name, 1)
    IN IF importEntry = 0 THEN [compatible |-> FALSE, reason |-> "no-dependency"]
       ELSE IF ~semver_satisfies(referencePkg.version,
                                 allTargetDeps(targetPkg)[importEntry][2])
       THEN [compatible |-> FALSE, reason |-> "no-matched-version"]
       ELSE [compatible |-> TRUE]

checkForMatchCompatibilityThrows(referencePath, targetPath) ==
    ~ManifestReadable(referencePath) \/ ~ManifestReadable(targetPath)

----------------------------------------------------------------------------
(* The projects on disk (project mocks) *)

\* "/a/t" and "/b/t" are two checkouts of the same project t#1.0; "/c/u" is
\* another target; "/r1", "/r2", "/o" are reference projects; "/bad" holds no
\* readable package.json
ProjectMocks ==
    [p \in {"/a/t", "/b/t", "/c/u", "/r1", "/r2", "/o"} |->
        CASE p \in {"/a/t", "/b/t"} ->
                [name |-> "t", version |-> Version(1, 0),
                 dependencies |-> << <<"dep-a", Caret(1, 0)>> >>]
          [] p = "/c/u" ->
                [name |-> "u", version |-> Version(1, 0),
                 devDependencies |-> << <<"dep-a", Caret(1, 0)>> >>]
          [] p = "/r1" -> [name |-> "dep-a", version |-> Version(1, 2)]
          [] p = "/r2" -> [name |-> "dep-a", version |-> Version(2, 0)]
          [] OTHER -> [name |-> "dep-b", version |-> Version(1, 0)]]

\* pathLib.sep: the separator of the paths the platform hands out
sep == IF platform = "win32" THEN "\\" ELSE "/"

\* a file in the root of a project, and one in a directory of the root
InRoot(base) == base
InDir(dir, separator, base) == dir \o separator \o base

\* the files below each project root, in discovery order, their paths
\* relative to the root as the platform writes them
ProjectFiles(path) ==
    CASE path \in {"/a/t", "/b/t"} ->
            << [name |-> InRoot("f1.js"), ext |-> ".js"],
               [name |-> InDir("sub", sep, "f2.js"), ext |-> ".js"],
               [name |-> InRoot("f3.js"), ext |-> ".js"],
               [name |-> InDir("test", sep, "f4.js"), ext |-> ".js"] >>
      [] path = "/c/u" ->
            << [name |-> InRoot("f3.js"), ext |-> ".js"],
               [name |-> InDir("sub", sep, "f2.js"), ext |-> ".js"] >>
      [] OTHER ->
            << [name |-> InRoot("index.js"), ext |-> ".js"],
               [name |-> InDir("lib", sep, "api.js"), ext |-> ".js"],
               [name |-> InRoot("types.ts"), ext |-> ".ts"] >>

FileNames ==
    {InRoot(b) : b \in {"f1.js", "f3.js", "index.js", "types.ts"}}
    \cup {InDir(d[1], s, d[2]) :
            d \in {<<"sub", "f2.js">>, <<"test", "f4.js">>, <<"lib", "api.js">>},
            s \in {"/", "\\"}}

\* pathLib.basename(file)
Basename(file) ==
    IF Separators(file) = {} THEN file
    ELSE LET last == CHOOSE i \in Separators(file) : \A j \in Separators(file) : j <= i
         IN SubSeq(file, last + 1, Len(file))

\* what a per-file analysis returns: {result, meta}
AnalysisReturn(result) == [result |-> result, meta |-> [analyzed |-> TRUE]]

\* the per-file analysis of the analyzer under test: f1.js has no findings
MockAnalysis ==
    [f \in FileNames |->
        CASE Basename(f) = "f1.js" -> AnalysisReturn(<<>>)
          [] Basename(f) = "f2.js" -> AnalysisReturn(<<"x">>)
          [] Basename(f) = "f3.js" -> AnalysisReturn(<<"y", "z">>)
          [] OTHER -> AnalysisReturn(<<"i">>)]

----------------------------------------------------------------------------
(* External collaborators: InputDataService, QueryService, ReportService *)

\* InputDataService.getProjectMeta(path): {name, version, path}; fails when
\* the manifest is unreadable (getProjectMetaThrows)
getProjectMeta(path) ==
    [name |-> fs[path].name, version |-> fs[path].version, path |-> path]

getProjectMetaThrows(path) == ~ManifestReadable(path)

\* the directory of the root a file is in ("" for a file in the root)
TopDirectory(file) ==
    IF Separators(file) = {} THEN ""
    ELSE LET first == CHOOSE i \in Separators(file) : \A j \in Separators(file) : i <= j
         IN SubSeq(file, 1, first - 1)

\* the allowlist of a gatherFilesConfig lets the file through: an entry
\* '!dir' shuts the directory out, and when there are entries without '!'
\* the file has to be in one of the directories they name
Allowlisted(allowlist, file) ==
    LET negated == {Tail(e) : e \in {x \in Range(allowlist) : Head(x) = "!"}}
        named == {x \in Range(allowlist) : Head(x) # "!"}
    IN /\ TopDirectory(file) \notin negated
       /\ named # {} => TopDirectory(file) \in named

\* the files of a project a gatherFilesConfig lets through
GatheredFiles(path, gatherFilesConfig) ==
    SelectSeq(ProjectFiles(path),
              LAMBDA f : /\ f.ext \in gatherFilesConfig.extensions
                         /\ Allowlisted(gatherFilesConfig.allowlist, f.name))

\* InputDataService.createDataObject([path], gatherFilesConfig): one project
\* data object per path, its entries the files the configuration lets through
createDataObject(paths, gatherFilesConfig) ==
    [i \in 1..Len(paths) |->
        [project |-> getProjectMeta(paths[i]),
         entries |-> LET kept == GatheredFiles(paths[i], gatherFilesConfig)
                     IN [j \in 1..Len(kept) |-> <<paths[i], kept[j].name>>]]]

\* QueryService.addAstToProjectsData(projectsData, 'babel'): every entry
\* becomes {file, ast, context: {code}}
addAstToProjectsData(projectsData, dialect) ==
    [i \in 1..Len(projectsData) |->
        [project |-> projectsData[i].project,
         entries |-> [j \in 1..Len(projectsData[i].entries) |->
                        [file |-> projectsData[i].entries[j],
                         ast |-> [dialect |-> dialect, of |-> projectsData[i].entries[j]],
                         context |-> [code |-> projectsData[i].entries[j]]]]]]

\* getFilePathRelativeFromRoot(file, root): a file is <<root, name>>
getFilePathRelativeFromRoot(file, root) == file[2]

ProjectId(project) == <<project.name, project.version>>

\* the keys of an analyzer configuration that hold a filesystem location
LocationKeys == {"targetProjectPath", "referenceProjectPath"}

\* a provided result without the location of its project
WithoutProjectPath(result) ==
    IF Has(result, "analyzerMeta") /\ Has(result.analyzerMeta, "targetProject")
    THEN [result EXCEPT !.analyzerMeta.targetProject = Delete(@, "path")]
    ELSE result

\* what of an analyzer configuration the identifier is derived from: all but
\* the filesystem locations in it
WithoutLocations(analyzerConfig) ==
    [k \in DOMAIN analyzerConfig \ LocationKeys |->
        IF k \in {"targetProjectResult", "referenceProjectResult"}
        THEN WithoutProjectPath(analyzerConfig[k])
        ELSE analyzerConfig[k]]

\* the hash of a value, a string in the code: the singleton of the value,
\* equal exactly for equal values, and a scalar to a walk over objects and
\* arrays (TypeOf)
Hash(v) == {v}

\* ReportService.createIdentifier(seed): a function of the logical content
\* of the seed: the name and version of its projects (not their path) and a
\* hash of its analyzerConfig without the filesystem locations
createIdentifier(seed) ==
    [projects |-> IF Has(seed, "referenceProject")
                  THEN <<ProjectId(seed.targetProject), ProjectId(seed.referenceProject)>>
                  ELSE <<ProjectId(seed.targetProject)>>,
     cfgHash |-> Hash(WithoutLocations(seed.analyzerConfig))]

\* ReportService.getCachedResult({analyzerName, identifier})
CacheKey(analyzerName, identifier) == <<analyzerName, identifier>>

IsCached(store, analyzerName, identifier) ==
    CacheKey(analyzerName, identifier) \in DOMAIN store

\* the stored (json) form of a result: {meta: {analyzerMeta}, queryOutput}
ReportOf(result) ==
    [queryOutput |-> result.queryOutput,
     meta |-> [analyzerMeta |-> result.analyzerMeta]]

----------------------------------------------------------------------------
(* posixify *)

\* the type of a value as lines 170-181 test it: "array" where Array.isArray
\* holds, "object" and "null" (null is the string "null" here) where typeof
\* gives 'object', "string" where it gives 'string'
JsType(v) ==
    LET t == TypeOf(v)
    IN IF t = "string" /\ v = Null THEN "null" ELSE t

IsNull(v) == JsType(v) = "null"
\* typeof v === 'string'
IsString(v) == JsType(v) = "string"

\* toPosixPath(pathStr): every backslash becomes a forward slash
RECURSIVE toPosixPath(_)
toPosixPath(pathStr) ==
    IF pathStr = "" THEN ""
    ELSE (IF Head(pathStr) = "\\" THEN "/" ELSE Head(pathStr))
         \o toPosixPath(Tail(pathStr))

\* a plausible slip: the key is not looked at
RewritesEntry_anyKey(k, type) == type = "string"

\* the condition of line 181, on a key and the type of the value under it
RewritesEntry(k, type) == type = "string" /\ k = "file"

\* posixify(data) for data of the given type: the value data holds after
\* the call (it rewrites in place).  It returns on null (line 170), goes
\* through every array (lines 173-174) and every object (lines 175-185)
\* below data, and rewrites the strings held under a key 'file' (lines
\* 181-182).  The type of a value is read once and handed down
RECURSIVE posixifyOf(_, _)
posixifyOf(data, type) ==
    IF type = "null" THEN data
    ELSE IF type = "array"
    THEN [i \in DOMAIN data |-> posixifyOf(data[i], JsType(data[i]))]
    ELSE IF type = "object"
    THEN [k \in DOMAIN data |->
            LET v == data[k]
                t == JsType(v)
            IN IF t = "array" \/ t \in {"object", "null"} THEN posixifyOf(v, t)
               ELSE IF RewritesEntry(k, t) THEN toPosixPath(v)
               ELSE v]
    ELSE data

\* posixify(data)
posixify(data) == posixifyOf(data, JsType(data))

\* lines 243-245: posixify runs on win32 only
PlatformPosixify(aResult) ==
    IF platform = "win32" THEN posixify(aResult) ELSE aResult

----------------------------------------------------------------------------
(* Result normalizer *)

name == "match-paths"
requiredAst == "babel"

\* the sentinel `[${reason}]`
SkipOutput(reason) ==
    [string |-> IF reason = "no-dependency" THEN "[no-dependency]"
                ELSE "[no-matched-version]"]

\* `delete projectOutput.project.path` for each entry of an array queryOutput
StripProjectPaths(queryOutput) ==
    IF Has(queryOutput, "array")
    THEN [array |-> [i \in 1..Len(queryOutput.array) |->
            IF Has(queryOutput.array[i], "project")
            THEN [queryOutput.array[i] EXCEPT !.project = Delete(@, "path")]
            ELSE queryOutput.array[i]]]
    ELSE queryOutput

\* a plausible slip: the target's path stays in the configuration
SanitizeConfiguration_keepsTargetPath(configuration) ==
    Delete(configuration, "referenceProjectPath")

\* a plausible slip: both raw results are removed
StripRawResult_both(configuration) ==
    Delete(Delete(configuration, "referenceProjectResult"), "targetProjectResult")

\* lines 227-233: the reference's raw result is removed, else the target's
StripRawResult(configuration) ==
    IF Has(configuration, "referenceProjectResult")
    THEN Delete(configuration, "referenceProjectResult")
    ELSE IF Has(configuration, "targetProjectResult")
    THEN Delete(configuration, "targetProjectResult")
    ELSE configuration

\* the configuration as ensureAnalyzerResultFormat leaves it (lines 224-233)
SanitizeConfiguration(configuration) ==
    StripRawResult(Delete(Delete(configuration, "referenceProjectPath"),
                          "targetProjectPath"))

\* Object identity.  Lines 332 and 338 make a metadata field of the instance
\* the targetProject object of a provided result: one object, held by the
\* instance and by the result in the configuration.  `providedMeta` on the
\* instance says, for such a field, which configuration: Here for the
\* configuration at hand, else the number of the execute call it belongs to.
\* A field that is not in providedMeta holds an object of its own, whatever
\* its value: an equal object elsewhere is another object.
Here == 0

MetaFields == {"targetProjectMeta", "referenceProjectMeta"}

\* the property of the configuration whose result a metadata field comes from
ResultOf(field) ==
    IF field = "targetProjectMeta" THEN "targetProjectResult"
    ELSE "referenceProjectResult"

ProvidedMeta(an) == IF Has(an, "providedMeta") THEN an.providedMeta ELSE EmptyObject

\* the field is the targetProject object of the result the configuration
\* holds
SharedHere(an, field, configuration) ==
    /\ Has(an, field)
    /\ Has(configuration, ResultOf(field))
    /\ Has(configuration[ResultOf(field)], "analyzerMeta")
    /\ Has(ProvidedMeta(an), field)
    /\ ProvidedMeta(an)[field] = Here

\* the instance as the call c sees it (its own configuration is Here), and
\* as it is kept between the calls
ViewFor(an, c) ==
    IF Has(an, "providedMeta")
    THEN [an EXCEPT !.providedMeta =
            [k \in DOMAIN an.providedMeta |->
                IF an.providedMeta[k] = c THEN Here ELSE an.providedMeta[k]]]
    ELSE an

Placed(an, c) ==
    IF Has(an, "providedMeta")
    THEN [an EXCEPT !.providedMeta =
            [k \in DOMAIN an.providedMeta |->
                IF an.providedMeta[k] = Here THEN c ELSE an.providedMeta[k]]]
    ELSE an

\* lines 199-206 on the instance: `delete optional.targetProject.path` and
\* `delete optional.referenceProject.path` (optional.targetProject IS
\* analyzer.targetProjectMeta)
DeleteMetaPaths(an) ==
    [k \in DOMAIN an |-> IF k \in MetaFields THEN Delete(an[k], "path") ELSE an[k]]

\* the configuration, the objects it shares with the instance an being as
\* the instance holds them after a write to them (anAfter)
SharedMeta(configuration, an, anAfter) ==
    [k \in DOMAIN configuration |->
        IF \E field \in MetaFields :
              k = ResultOf(field) /\ SharedHere(an, field, configuration)
        THEN LET field == CHOOSE f \in MetaFields : k = ResultOf(f)
             IN [configuration[k] EXCEPT
                    !.analyzerMeta = ("targetProject" :> anAfter[field]) @@ @]
        ELSE configuration[k]]

\* the project metadata after `delete optional.targetProject.path`
OptionalProjects(an) ==
    (IF Has(an, "targetProjectMeta")
     THEN [targetProject |-> Delete(an.targetProjectMeta, "path")]
     ELSE EmptyObject)
    @@
    (IF Has(an, "referenceProjectMeta")
     THEN [referenceProject |-> Delete(an.referenceProjectMeta, "path")]
     ELSE EmptyObject)

\* ensureAnalyzerResultFormat(queryOutput, configuration, analyzer): aResult
\* as lines 197-241 build it, posixified on win32 (lines 243-245).  The
\* delete of lines 201 and 205 shows in a raw result the configuration keeps
\* when its targetProject is the instance's metadata object
ensureAnalyzerResultFormat(queryOutput, configuration, an) ==
    LET aResult ==
            [queryOutput |-> StripProjectPaths(queryOutput),
             analyzerMeta |->
                OptionalProjects(an)
                @@ [name |-> name,
                    requiredAst |-> requiredAst,
                    identifier |-> an.identifier,
                    configuration |->
                        SanitizeConfiguration(
                            SharedMeta(configuration, an, DeleteMetaPaths(an)))]]
    IN PlatformPosixify(aResult)

\* a plausible slip (or a repair): the metadata is copied before the delete
AnalyzerAfterFormat_untouched(an) == an

\* ensureAnalyzerResultFormat's effect on the analyzer: optional.targetProject
\* IS analyzer.targetProjectMeta, so the delete strips the instance's object,
\* and posixify, on win32, goes through it
AnalyzerAfterFormat(an) ==
    [k \in DOMAIN an |->
        IF k \in MetaFields
        THEN PlatformPosixify(Delete(an[k], "path"))
        ELSE an[k]]

\* ensureAnalyzerResultFormat's effect on the configuration object handed to
\* it: aResult.analyzerMeta.configuration IS that object (lines 201, 205,
\* 216, 224-233, 243-245)
ConfigurationAfterFormat(configuration, an) ==
    PlatformPosixify(
        SanitizeConfiguration(SharedMeta(configuration, an, DeleteMetaPaths(an))))

\* ensureAnalyzerResultFormat's effect on the queryOutput handed to it:
\* aResult.queryOutput IS that value (lines 210, 235-241, 243-245)
QueryOutputAfterFormat(queryOutput) ==
    PlatformPosixify(StripProjectPaths(queryOutput))

\* the project metadata the instance holds
MetaOf(an) ==
    [k \in DOMAIN an \cap {"targetProjectMeta", "referenceProjectMeta"} |-> an[k]]

\* the objects handed to ensureAnalyzerResultFormat, before and after the call
FormatEffects(queryOutput, configuration, an) ==
    [queryOutput |-> queryOutput,
     queryOutputAfter |-> QueryOutputAfterFormat(queryOutput),
     configuration |-> configuration,
     configurationAfter |-> ConfigurationAfterFormat(configuration, an),
     metaBefore |-> MetaOf(an),
     metaAfter |-> MetaOf(AnalyzerAfterFormat(an))]

\* a plausible slip: queryOutput is taken from the wrong level and is lost
unwindJsonResult_losesOutput(targetOrReferenceProjectResult) ==
    [analyzerMeta |-> targetOrReferenceProjectResult.meta.analyzerMeta]

\* unwindJsonResult
unwindJsonResult(targetOrReferenceProjectResult) ==
    [queryOutput |-> targetOrReferenceProjectResult.queryOutput,
     analyzerMeta |-> targetOrReferenceProjectResult.meta.analyzerMeta]

\* Analyzer.__unwindProvidedResults(cfg)
unwindProvidedResults(cfg) ==
    [k \in DOMAIN cfg |->
        IF k \in {"targetProjectResult", "referenceProjectResult"}
           /\ ~Has(cfg[k], "analyzerMeta")
        THEN unwindJsonResult(cfg[k])
        ELSE cfg[k]]

\* Analyzer._getCachedAnalyzerResult, for a key the store holds
getCachedAnalyzerResult(store, analyzerName, identifier) ==
    LET result == unwindJsonResult(store[CacheKey(analyzerName, identifier)])
    IN [result EXCEPT !.analyzerMeta = ("__fromCache" :> TRUE) @@ @]

----------------------------------------------------------------------------
(* Analyzer._prepare *)

Set(obj, k, v) == (k :> v) @@ obj

\* `this[field] = source[key]`: unset when the source holds no such property
Assign(an, field, source, key) ==
    IF Has(source, key) THEN Set(an, field, source[key]) ELSE Delete(an, field)

\* the field holds an object of its own
Own(an, field) ==
    IF ~Has(ProvidedMeta(an), field) THEN an
    ELSE IF DOMAIN an.providedMeta = {field} THEN Delete(an, "providedMeta")
    ELSE Set(an, "providedMeta", Delete(an.providedMeta, field))

\* the field holds the object of the result the configuration provides
Provided(an, field) ==
    IF Has(an, field)
    THEN Set(an, "providedMeta", (field :> Here) @@ ProvidedMeta(an))
    ELSE Own(an, field)

Truthy(cfg, k) == Has(cfg, k) /\ cfg[k] # FALSE

\* the seed handed to ReportService.createIdentifier (lines 344-348)
IdentifierSeed(an, cfg) ==
    [analyzerConfig |-> cfg]
    @@ (IF Has(an, "targetProjectMeta")
        THEN [targetProject |-> an.targetProjectMeta] ELSE EmptyObject)
    @@ (IF Has(an, "referenceProjectMeta")
        THEN [referenceProject |-> an.referenceProjectMeta] ELSE EmptyObject)

\* the cache lookup of lines 374-381
LookupHits(store, analyzerName, identifier) ==
    IsCached(store, analyzerName, identifier)

\* a plausible slip: skipCheckMatchCompatibility is not consulted
RunsCompatibilityCheck_always(cfg) == cfg.referenceProjectPath # Null

\* the condition of line 352
RunsCompatibilityCheck(cfg) ==
    cfg.referenceProjectPath # Null /\ ~Truthy(cfg, "skipCheckMatchCompatibility")

\* the condition of line 388
GathersTarget(cfg) == ~Has(cfg, "targetProjectResult")

\* Analyzer._prepare(cfg) on an instance with fields `an` and a Cache Store
\* `store`: what it does to the instance, what it returns, and what it
\* touched on the way
Analyzer_prepare(cfgIn, an, store) ==
    LET cfg == unwindProvidedResults(cfgIn)
        hasT == Has(cfg, "targetProjectResult")
        hasR == Has(cfg, "referenceProjectResult")
        target == cfg.targetProjectPath
        reference == cfg.referenceProjectPath
        an1 == IF ~hasT
               THEN Own(Set(an, "targetProjectMeta", getProjectMeta(target)),
                        "targetProjectMeta")
               ELSE Provided(Assign(an, "targetProjectMeta",
                                    cfg.targetProjectResult.analyzerMeta,
                                    "targetProject"),
                             "targetProjectMeta")
        an2 == IF reference # Null /\ ~hasR
               THEN Own(Set(an1, "referenceProjectMeta", getProjectMeta(reference)),
                        "referenceProjectMeta")
               ELSE IF hasR
               THEN Provided(Assign(an1, "referenceProjectMeta",
                                    cfg.referenceProjectResult.analyzerMeta,
                                    "targetProject"),
                             "referenceProjectMeta")
               ELSE an1
        identifier == createIdentifier(IdentifierSeed(an2, cfg))
        an3 == Set(an2, "identifier", identifier)
        verdict == checkForMatchCompatibility(reference, target)
        an4 == IF GathersTarget(cfg)
               THEN Set(an3, "targetData",
                        createDataObject(<<target>>, cfg.gatherFilesConfig))
               ELSE an3
        referenceConfig == IF Has(cfg, "gatherFilesConfigReference")
                           THEN cfg.gatherFilesConfigReference
                           ELSE cfg.gatherFilesConfig
        an5 == IF reference # Null
               THEN Set(an4, "referenceData",
                        createDataObject(<<reference>>, referenceConfig))
               ELSE an4
        gathered == (IF GathersTarget(cfg)
                     THEN << [path |-> target, config |-> cfg.gatherFilesConfig] >>
                     ELSE <<>>)
                    \o (IF reference # Null
                        THEN << [path |-> reference, config |-> referenceConfig] >>
                        ELSE <<>>)
        touched(compat, read, files) ==
            [compatChecked |-> compat, cacheRead |-> read, gathered |-> files]
    IN IF ~hasT /\ getProjectMetaThrows(target)
       THEN [outcome |-> "throw", at |-> "metadata", analyzer |-> an, cfg |-> cfg]
            @@ touched(FALSE, FALSE, <<>>)
       ELSE IF reference # Null /\ ~hasR /\ getProjectMetaThrows(reference)
       THEN [outcome |-> "throw", at |-> "metadata", analyzer |-> an1, cfg |-> cfg]
            @@ touched(FALSE, FALSE, <<>>)
       ELSE IF RunsCompatibilityCheck(cfg)
               /\ checkForMatchCompatibilityThrows(reference, target)
       THEN [outcome |-> "throw", at |-> "compatibility", analyzer |-> an3,
             cfg |-> cfg, identifier |-> identifier]
            @@ touched(TRUE, FALSE, <<>>)
       ELSE IF RunsCompatibilityCheck(cfg) /\ ~verdict.compatible
       THEN [outcome |-> "return", kind |-> "skip",
             result |-> ensureAnalyzerResultFormat(SkipOutput(verdict.reason), cfg, an3),
             analyzer |-> AnalyzerAfterFormat(an3),
             formatted |-> FormatEffects(SkipOutput(verdict.reason), cfg, an3),
             cfg |-> cfg, identifier |-> identifier]
            @@ touched(TRUE, FALSE, <<>>)
       ELSE IF LookupHits(store, name, identifier)
       THEN [outcome |-> "return", kind |-> "cache",
             result |-> getCachedAnalyzerResult(store, name, identifier),
             analyzer |-> an3, cfg |-> cfg, identifier |-> identifier]
            @@ touched(RunsCompatibilityCheck(cfg), TRUE, <<>>)
       ELSE IF reference # Null /\ getProjectMetaThrows(reference)
       THEN [outcome |-> "throw", at |-> "gather", analyzer |-> an4,
             cfg |-> cfg, identifier |-> identifier]
            @@ touched(RunsCompatibilityCheck(cfg), TRUE, gathered)
       ELSE [outcome |-> "continue", analyzer |-> an5, cfg |-> cfg,
             identifier |-> identifier]
            @@ touched(RunsCompatibilityCheck(cfg), TRUE, gathered)

----------------------------------------------------------------------------
(* The configurations execute() is called with *)

DefaultAllowlist == <<"!coverage", "!test">>

\* `given || fallback` for an option of getExtendDocsResults
OrDefault(options, k, fallback) == IF Has(options, k) THEN options[k] ELSE fallback

\* lines 24-27: the gatherFilesConfig getExtendDocsResults hands over
gatherFilesConfig(options) ==
    [extensions |-> OrDefault(options, "extensions", {".js"}),
     allowlist |-> OrDefault(options, "allowlist", DefaultAllowlist)]

\* lines 28-31: the same extensions, the allowlist of the reference
gatherFilesConfigReference(options) ==
    [extensions |-> OrDefault(options, "extensions", {".js"}),
     allowlist |-> OrDefault(options, "allowlistReference", DefaultAllowlist)]

\* the default configuration, and the one of a reference gathered from lib/
JsFiles == gatherFilesConfig(EmptyObject)
LibFiles == gatherFilesConfigReference([allowlistReference |-> <<"lib">>])

\* a result of find-imports over t#1.0 as a caller provides it: written
\* where paths hold backslashes (the entry's file, the file of a finding
\* below it and the file the finding names for the package 'dep-a'), its
\* targetProject still with the path of the project
PriorTargetResult ==
    [queryOutput |->
        [array |-> << [file |-> InDir("sub", "\\", "f2.js"),
                       meta |-> [analyzed |-> TRUE],
                       result |-> << [name |-> "X",
                                      rootFile |-> [file |-> InDir("src", "\\", "x.js"),
                                                    specifier |-> "X"]]
                                     @@ ("dep-a" :> [file |-> InDir("lib", "\\", "a.js")])
                                  >>] >>],
     analyzerMeta |-> [name |-> "find-imports",
                       requiredAst |-> "babel",
                       identifier |-> [projects |-> << <<"t", Version(1, 0)>> >>,
                                       cfgHash |-> Hash([gatherFilesConfig |-> JsFiles])],
                       targetProject |-> [name |-> "t", version |-> Version(1, 0),
                                          path |-> "/x/t"],
                       configuration |-> [gatherFilesConfig |-> JsFiles]]]

\* a result of an earlier find-exports run over dep-a#1.2
PriorReferenceResult ==
    [queryOutput |-> [array |-> << [file |-> InRoot("index.js"),
                                    meta |-> [analyzed |-> TRUE],
                                    result |-> <<"i">>] >>],
     analyzerMeta |-> [name |-> "find-exports",
                       requiredAst |-> "babel",
                       identifier |-> [projects |-> << <<"dep-a", Version(1, 2)>> >>,
                                       cfgHash |-> Hash([gatherFilesConfig |-> JsFiles])],
                       targetProject |-> [name |-> "dep-a", version |-> Version(1, 2)],
                       configuration |-> [gatherFilesConfig |-> JsFiles]]]

Option(k, values) == {EmptyObject} \cup {(k :> v) : v \in values}

\* customConfig: a target, possibly a reference, possibly the flag and a
\* configuration for the reference's files, possibly results of earlier
\* runs (in memory, or as read back from json)
Configs ==
    LET plain ==
            {[targetProjectPath |-> t, gatherFilesConfig |-> JsFiles] :
                t \in {"/a/t", "/c/u", "/bad"}}
        withReference ==
            {[targetProjectPath |-> "/a/t", referenceProjectPath |-> r,
              gatherFilesConfig |-> JsFiles] :
                r \in {"/r1", "/r2", "/o", "/bad"}}
        withFlag ==
            {[targetProjectPath |-> "/a/t", referenceProjectPath |-> "/r2",
              gatherFilesConfig |-> JsFiles, gatherFilesConfigReference |-> LibFiles,
              skipCheckMatchCompatibility |-> TRUE]}
        withResults ==
            {[targetProjectPath |-> "/a/t", gatherFilesConfig |-> JsFiles] @@ tr @@ rr :
                tr \in Option("targetProjectResult", {ReportOf(PriorTargetResult)}),
                rr \in Option("referenceProjectResult", {PriorReferenceResult})}
        unreadableReference ==
            {[targetProjectPath |-> "/a/t", referenceProjectPath |-> "/bad",
              gatherFilesConfig |-> JsFiles,
              referenceProjectResult |-> PriorReferenceResult]}
        incompatibleWithResults ==
            {[targetProjectPath |-> "/a/t", referenceProjectPath |-> "/r2",
              gatherFilesConfig |-> JsFiles,
              targetProjectResult |-> PriorTargetResult,
              referenceProjectResult |-> PriorReferenceResult]}
    IN plain \cup withReference \cup withFlag
       \cup withResults \cup unreadableReference \cup incompatibleWithResults

----------------------------------------------------------------------------
(* Analyzer.execute: one action per synchronous stretch of the call *)

\* a call not made yet.  `phases` is the part of its lifecycle a call has
\* gone through: Idle, Preparing (_prepare, line 443), ShortCircuited (the
\* return of line 445), Traversing (_traverse, line 451, until execute
\* resumes after its await), Finalizing (_finalize, line 456), Done (its
\* return, in the stretch that entered _finalize)
Idle == [pc |-> "idle", phases |-> <<"Idle">>]

\* the locals of a call, gone when it settles
Locals == {"astInput", "projectData", "entries", "invoked", "queryOutput"}
Settle(call, with) == with @@ [k \in DOMAIN call \ Locals |-> call[k]]
Settled(c) == calls[c].pc \in {"done", "failed"}
InFlight(c) == calls[c].pc \in {"ast", "analyze", "finalize"}

\* the defaults of lines 434-438 under the caller's configuration
WithDefaults(customConfig) ==
    Spread([targetProjectPath |-> Null, referenceProjectPath |-> Null], customConfig)

\* the calls after a normalization left the instance as anAfter: a call in
\* flight whose configuration provides a metadata object of the instance
\* holds that object as the instance does
CallsAfterFormat(anAfter) ==
    [d \in DOMAIN calls |->
        IF InFlight(d)
        THEN [calls[d] EXCEPT !.cfg = SharedMeta(@, ViewFor(anAfter, d),
                                                 ViewFor(anAfter, d))]
        ELSE calls[d]]

\* what is recorded of a call when it starts
Started(customConfig, p) ==
    [customConfig |-> customConfig, cfg |-> p.cfg, cacheBefore |-> cache,
     compatChecked |-> p.compatChecked, cacheRead |-> p.cacheRead,
     gathered |-> p.gathered]
    @@ (IF Has(p, "identifier") THEN [identifier |-> p.identifier] ELSE EmptyObject)
    @@ (IF Has(p, "formatted") THEN [formatted |-> p.formatted] ELSE EmptyObject)

\* a plausible slip: _prepare's result is not looked at
AfterPrepare_ignoresResult(p) == "ast"

\* lines 443-451: a result of _prepare is returned, else _traverse is called
AfterPrepare(p) == IF p.outcome = "return" THEN "done" ELSE "ast"

\* execute(customConfig) up to its first await: _prepare, then either the
\* return of its result, or the call of _traverse, which hands this.targetData
\* to the AST provider
ExecuteNow(c, customConfig) ==
    /\ calls[c].pc = "idle"
    /\ LET p == Analyzer_prepare(WithDefaults(customConfig), ViewFor(analyzer, c), cache)
       IN /\ analyzer' = Placed(p.analyzer, c)
          /\ calls' = [(IF Has(p, "formatted")
                        THEN CallsAfterFormat(Placed(p.analyzer, c))
                        ELSE calls) EXCEPT ![c] =
                CASE p.outcome = "throw" ->
                        [pc |-> "failed", error |-> p.at, cacheAfter |-> cache,
                         phases |-> <<"Idle", "Preparing">>]
                        @@ Started(customConfig, p)
                  [] p.outcome # "throw" /\ AfterPrepare(p) = "done" ->
                        [pc |-> "done", kind |-> p.kind, result |-> p.result,
                         cacheAfter |-> cache,
                         phases |-> <<"Idle", "Preparing", "ShortCircuited">>]
                        @@ Started(customConfig, p)
                  [] OTHER ->
                        [pc |-> "ast",
                         phases |-> <<"Idle", "Preparing", "Traversing">>]
                        @@ (IF Has(p.analyzer, "targetData")
                            THEN [astInput |-> p.analyzer.targetData]
                            ELSE EmptyObject)
                        @@ Started(customConfig, p)]
    /\ UNCHANGED <<fs, astAnalysis, cache, compatOut, platform, posixIO>>

\* an execute call made when the calls before it have settled
Execute(c, customConfig) ==
    /\ \A d \in 1..(c - 1) : Settled(d)
    /\ ExecuteNow(c, customConfig)

\* a plausible slip: the analyses are started together (entries.map(async ...))
InvokedAfter_allAtOnce(projectData, settled) ==
    [i \in 1..Len(projectData.entries) |-> projectData.entries[i].file]

\* the files whose astAnalysis has been invoked once `settled` awaits of
\* line 158 have resumed: the loop invokes the next file's, if there is one
InvokedAfter(projectData, settled) ==
    LET n == IF settled < Len(projectData.entries)
             THEN settled + 1 ELSE Len(projectData.entries)
    IN [i \in 1..n |-> projectData.entries[i].file]

\* QueryService.addAstToProjectsData resolves: analyzePerAstEntry starts on
\* astDataProjects[0] and runs up to its first await
AstResolve(c) ==
    /\ calls[c].pc = "ast"
    /\ Has(calls[c], "astInput")
    /\ LET projectData == addAstToProjectsData(calls[c].astInput, requiredAst)[1]
       IN calls' = [calls EXCEPT ![c] =
            [pc |-> "analyze",
             projectData |-> projectData,
             entries |-> <<>>,
             invoked |-> InvokedAfter(projectData, 0)]
            @@ calls[c]]
    /\ UNCHANGED <<fs, astAnalysis, analyzer, cache, compatOut, platform, posixIO>>

\* AST construction fails (always so when this.targetData was never set)
AstReject(c) ==
    /\ calls[c].pc = "ast"
    /\ calls' = [calls EXCEPT ![c] =
            Settle(calls[c], [pc |-> "failed", error |-> "ast", cacheAfter |-> cache])]
    /\ UNCHANGED <<fs, astAnalysis, analyzer, cache, compatOut, platform, posixIO>>

----------------------------------------------------------------------------
(* analyzePerAstEntry: the loop over projectData.entries *)

\* the entry built for the i-th file (lines 155-159), given what the
\* analysis returns for its relative path
EntryFor(projectData, i, analysis) ==
    LET relativePath == getFilePathRelativeFromRoot(projectData.entries[i].file,
                                                    projectData.project.path)
    IN [file |-> relativePath,
        meta |-> analysis[relativePath].meta,
        result |-> analysis[relativePath].result]

\* entries.push(...)
PushEntry(entries, entry) == Append(entries, entry)

\* a plausible slip: the filter keeps the empty results
filteredEntries_keepsEmpty(entries) ==
    SelectSeq(entries, LAMBDA e : Len(e.result) >= 0)

\* entries.filter(({ result }) => Boolean(result.length))
filteredEntries(entries) ==
    SelectSeq(entries, LAMBDA e : Len(e.result) # 0)

\* a plausible slip: a throwing analysis is caught and the loop goes on
AfterAnalysisThrow_swallowed(call) ==
    [error |-> "analysis",
     entries |-> Append(call.entries, [file |-> "?", meta |-> "?", result |-> <<>>])]
    @@ call

\* the await of line 158 rejects: analyzePerAstEntry, _traverse and execute
\* reject with it; no later file's analysis is invoked
AfterAnalysisThrow(call) ==
    Settle(call, [pc |-> "failed", error |-> "analysis", cacheAfter |-> cache])

\* the analysis in flight resolves: its entry is pushed and the loop invokes
\* the analysis of the next file
AnalyzeEntry(c) ==
    /\ calls[c].pc = "analyze"
    /\ Len(calls[c].entries) < Len(calls[c].invoked)
    /\ LET i == Len(calls[c].entries) + 1
       IN calls' = [calls EXCEPT ![c] =
            [entries |-> PushEntry(calls[c].entries,
                                   EntryFor(calls[c].projectData, i, astAnalysis)),
             invoked |-> InvokedAfter(calls[c].projectData, i)]
            @@ calls[c]]
    /\ UNCHANGED <<fs, astAnalysis, analyzer, cache, compatOut, platform, posixIO>>

\* the analysis in flight throws
AnalyzeEntryThrows(c) ==
    /\ calls[c].pc = "analyze"
    /\ Len(calls[c].entries) < Len(calls[c].invoked)
    /\ calls' = [calls EXCEPT ![c] = AfterAnalysisThrow(calls[c])]
    /\ UNCHANGED <<fs, astAnalysis, analyzer, cache, compatOut, platform, posixIO>>

\* the loop is over: analyzePerAstEntry returns the filtered entries
TraverseReturn(c) ==
    /\ calls[c].pc = "analyze"
    /\ Len(calls[c].entries) = Len(calls[c].invoked)
    /\ Len(calls[c].entries) >= Len(calls[c].projectData.entries)
    /\ calls' = [calls EXCEPT ![c] =
            [pc |-> "finalize",
             queryOutput |-> [array |-> filteredEntries(calls[c].entries)]]
            @@ calls[c]]
    /\ UNCHANGED <<fs, astAnalysis, analyzer, cache, compatOut, platform, posixIO>>

----------------------------------------------------------------------------
(* Analyzer._finalize *)

\* the Cache Store after _finalize (lines 410-416): _finalize formats and
\* logs, and calls nothing that writes
CacheAfterFinalize(store, result) == store

\* Analyzer._finalize(queryOutput, cfg)
Analyzer_finalize(queryOutput, cfg, an) ==
    ensureAnalyzerResultFormat(queryOutput, cfg, an)

\* execute resumes after `await this._traverse(...)`, enters _finalize and
\* returns its result
Finalize(c) ==
    /\ calls[c].pc = "finalize"
    /\ LET an == ViewFor(analyzer, c)
           result == Analyzer_finalize(calls[c].queryOutput, calls[c].cfg, an)
       IN /\ cache' = CacheAfterFinalize(cache, result)
          /\ calls' = [CallsAfterFormat(AnalyzerAfterFormat(analyzer)) EXCEPT ![c] =
                Settle(calls[c], [pc |-> "done", kind |-> "final",
                                  result |-> result, cacheAfter |-> cache',
                                  phases |-> calls[c].phases \o <<"Finalizing", "Done">>,
                                  formatted |-> FormatEffects(calls[c].queryOutput,
                                                              calls[c].cfg, an)])]
    /\ analyzer' = AnalyzerAfterFormat(analyzer)
    /\ UNCHANGED <<fs, astAnalysis, compatOut, platform, posixIO>>

----------------------------------------------------------------------------
(* The Cache Store an instance finds *)

\* the configurations of the runs whose reports the store may hold
StoredRuns == {[targetProjectPath |-> "/a/t", gatherFilesConfig |-> JsFiles]}

\* the report of a run of execute(customConfig) over a readable target,
\* from a fresh instance and an empty store through _traverse and _finalize
ReportOfRun(customConfig) ==
    LET p == Analyzer_prepare(WithDefaults(customConfig), EmptyObject, EmptyObject)
        projectData == addAstToProjectsData(p.analyzer.targetData, requiredAst)[1]
        entries == [i \in 1..Len(projectData.entries) |->
                        EntryFor(projectData, i, MockAnalysis)]
    IN ReportOf(Analyzer_finalize([array |-> filteredEntries(entries)],
                                  p.cfg, p.analyzer))

\* the store holding the report under (analyzerName, identifier)
StoreOf(report) ==
    CacheKey(report.meta.analyzerMeta.name, report.meta.analyzerMeta.identifier)
        :> report

\* the Cache Store as ReportService.getCachedResult reads it when the first
\* call is made: empty, or holding the report of an earlier run
PriorStores == {EmptyObject} \cup {StoreOf(ReportOfRun(x)) : x \in StoredRuns}

----------------------------------------------------------------------------
(* Spec: execute() calls, one after the other, on one Analyzer instance *)

NotChecked == [called |-> FALSE]
NotPosixified == [called |-> FALSE]

Init ==
    /\ fs = ProjectMocks
    /\ astAnalysis = MockAnalysis
    /\ analyzer = EmptyObject
    /\ platform \in {"linux", "win32"}
    /\ cache \in PriorStores
    /\ calls = [c \in 1..MaxCalls |-> Idle]
    /\ compatOut = NotChecked
    /\ posixIO = NotPosixified

Next ==
    \E c \in 1..MaxCalls :
        \/ \E customConfig \in Configs : Execute(c, customConfig)
        \/ AstResolve(c)
        \/ AstReject(c)
        \/ AnalyzeEntry(c)
        \/ AnalyzeEntryThrows(c)
        \/ TraverseReturn(c)
        \/ Finalize(c)

Spec == Init /\ [][Next]_vars

----------------------------------------------------------------------------
(* SpecInterleaved: execute() calls made without awaiting the earlier ones *)

\* the configurations of the interleaved calls: two targets, a reference,
\* provided results
InterleavedConfigs ==
    {[targetProjectPath |-> "/a/t", gatherFilesConfig |-> JsFiles],
     [targetProjectPath |-> "/c/u", gatherFilesConfig |-> JsFiles],
     [targetProjectPath |-> "/c/u", referenceProjectPath |-> "/r1",
      gatherFilesConfig |-> JsFiles],
     [targetProjectPath |-> "/bad", gatherFilesConfig |-> JsFiles],
     [targetProjectPath |-> "/a/t", gatherFilesConfig |-> JsFiles,
      targetProjectResult |-> PriorTargetResult,
      referenceProjectResult |-> PriorReferenceResult]}

\* an execute call made once the calls before it were made, settled or not:
\* it runs up to its first await while they are suspended
ExecuteInterleaved(c, customConfig) ==
    /\ \A d \in 1..(c - 1) : calls[d].pc # "idle"
    /\ ExecuteNow(c, customConfig)

NextInterleaved ==
    \E c \in 1..MaxCalls :
        \/ \E customConfig \in InterleavedConfigs : ExecuteInterleaved(c, customConfig)
        \/ AstResolve(c)
        \/ AstReject(c)
        \/ AnalyzeEntry(c)
        \/ AnalyzeEntryThrows(c)
        \/ TraverseReturn(c)
        \/ Finalize(c)

SpecInterleaved == Init /\ [][NextInterleaved]_vars

----------------------------------------------------------------------------
(* SpecSuccessive: a longer series of execute() calls, one after the other, *)
(* on one instance: over a project, a relocated checkout of it, and the     *)
(* project with a reference                                                 *)

SuccessiveConfigs ==
    {[targetProjectPath |-> t, gatherFilesConfig |-> JsFiles] : t \in {"/a/t", "/b/t"}}
    \cup {[targetProjectPath |-> "/a/t", referenceProjectPath |-> "/r1",
           gatherFilesConfig |-> JsFiles]}

InitSuccessive ==
    /\ fs = ProjectMocks
    /\ astAnalysis = MockAnalysis
    /\ analyzer = EmptyObject
    /\ platform \in {"linux", "win32"}
    /\ cache = EmptyObject
    /\ calls = [c \in 1..MaxSuccessive |-> Idle]
    /\ compatOut = NotChecked
    /\ posixIO = NotPosixified

NextSuccessive ==
    \E c \in 1..MaxSuccessive :
        \/ \E customConfig \in SuccessiveConfigs : Execute(c, customConfig)
        \/ AstResolve(c)
        \/ AstReject(c)
        \/ AnalyzeEntry(c)
        \/ AnalyzeEntryThrows(c)
        \/ TraverseReturn(c)
        \/ Finalize(c)

SpecSuccessive == InitSuccessive /\ [][NextSuccessive]_vars

----------------------------------------------------------------------------
(* getExtendDocsResults: what the driver keeps of the results *)

RECURSIVE flatten(_)
flatten(arrays) ==
    IF arrays = <<>> THEN <<>> ELSE Head(arrays) \o flatten(Tail(arrays))

\* String.prototype.startsWith
StartsWith(str, prefix) ==
    Len(prefix) <= Len(str) /\ SubSeq(str, 1, Len(prefix)) = prefix

\* lines 50-63: the first package whose './<path>' the path starts with
\* gives '<name>/<the path without that prefix>'
replaceToMonoRepoPath(pathStr, pkgs) ==
    LET normalizedP(i) == "./" \o pkgs[i].path
        hits == {i \in DOMAIN pkgs : StartsWith(pathStr, normalizedP(i))}
    IN IF hits = {} THEN pathStr
       ELSE LET first == CHOOSE i \in hits : \A j \in hits : i <= j
                localPath == SubSeq(pathStr, Len(normalizedP(first)) + 1, Len(pathStr))
            IN pkgs[first].name \o "/" \o localPath

\* lines 68-71 and 74-77: the `to` of every path of resultObj[k]
RewritePathsTo(resultObj, k, pkgs) ==
    IF Has(resultObj, k)
    THEN [resultObj EXCEPT ![k].paths =
            [j \in DOMAIN @ |-> [@[j] EXCEPT !.to = replaceToMonoRepoPath(@, pkgs)]]]
    ELSE resultObj

\* InputDataService.getMonoRepoPackages(cwd): undefined outside a mono repo
\* (no property `packages`), else the packages {path, name}
NoMonoRepo == EmptyObject

\* what getExtendDocsResults returns (lines 42-82): the string outputs
\* ('[no-dependency]' etc.) are filtered out, the arrays flattened and, in a
\* mono repo, the paths of the entries rewritten
getExtendDocsQueryOutputs(results, monoPkgs) ==
    LET outputs == SelectSeq([i \in 1..Len(results) |-> results[i].queryOutput],
                             LAMBDA o : ~Has(o, "string"))
        queryOutputs == flatten([i \in 1..Len(outputs) |-> outputs[i].array])
    IN IF Has(monoPkgs, "packages")
       THEN [i \in DOMAIN queryOutputs |->
                RewritePathsTo(RewritePathsTo(queryOutputs[i], "variable",
                                              monoPkgs.packages),
                               "tag", monoPkgs.packages)]
       ELSE queryOutputs

----------------------------------------------------------------------------
(* SpecCompat: checkForMatchCompatibility over every pair of manifests *)

DepNames == {"dep-a", "dep-b", "dep-c"}
DepRanges == {Caret(1, 3), Caret(2, 0)}
DepVersions == {Version(1, 2), Version(1, 4), Version(2, 0)}

\* the dependencies / devDependencies objects: a name is declared once
DepObjects ==
    {s \in SeqsUpTo(DepNames \X DepRanges, MaxDeps) :
        Injective([i \in DOMAIN s |-> s[i][1]])}

TargetPkgs ==
    {[name |-> "t", version |-> Version(1, 0)] @@ d @@ dd :
        d \in Option("dependencies", DepObjects),
        dd \in Option("devDependencies", DepObjects)}

ReferencePkgs ==
    {[name |-> n, version |-> v] : n \in {"dep-a", "dep-b"}, v \in DepVersions}

InitCompat ==
    /\ fs \in {("/t" :> t) @@ ("/r" :> r) : t \in TargetPkgs, r \in ReferencePkgs}
    /\ astAnalysis = MockAnalysis
    /\ analyzer = EmptyObject
    /\ cache = EmptyObject
    /\ calls = [c \in 1..MaxCalls |-> Idle]
    /\ compatOut = NotChecked
    /\ platform = "linux"
    /\ posixIO = NotPosixified

CheckCompatibility ==
    /\ ~compatOut.called
    /\ compatOut' = [called |-> TRUE,
                     verdict |-> checkForMatchCompatibility("/r", "/t")]
    /\ UNCHANGED <<fs, astAnalysis, analyzer, cache, calls, platform, posixIO>>

NextCompat == CheckCompatibility

SpecCompat == InitCompat /\ [][NextCompat]_vars

----------------------------------------------------------------------------
(* SpecTraverse: analyzePerAstEntry over every file list and analysis *)

TraversedNames ==
    {InRoot("f1.js"), InDir("sub", "/", "f2.js"), InRoot("f3.js"), InRoot("index.js")}

\* the file lists the File Gatherer can discover: no file twice
FileLists == {s \in SeqsUpTo(TraversedNames, MaxFiles) : Injective(s)}

AnalysisFunctions ==
    [TraversedNames -> {AnalysisReturn(<<>>), AnalysisReturn(<<"x">>)}]

\* a call that has handed the gathered files of a project to the AST provider
TraversalOf(files) ==
    [pc |-> "ast",
     phases |-> <<"Idle", "Preparing", "Traversing">>,
     astInput |->
        << [project |-> [name |-> "p", version |-> Version(1, 0), path |-> "/p"],
            entries |-> [j \in 1..Len(files) |-> <<"/p", files[j]>>]] >>,
     cacheBefore |-> EmptyObject]

InitTraverse ==
    /\ fs = ProjectMocks
    /\ astAnalysis \in AnalysisFunctions
    /\ analyzer = EmptyObject
    /\ cache = EmptyObject
    /\ \E files \in FileLists :
          calls = [c \in 1..MaxCalls |-> IF c = 1 THEN TraversalOf(files) ELSE Idle]
    /\ compatOut = NotChecked
    /\ platform = "linux"
    /\ posixIO = NotPosixified

NextTraverse ==
    \/ AstResolve(1)
    \/ AstReject(1)
    \/ AnalyzeEntry(1)
    \/ AnalyzeEntryThrows(1)
    \/ TraverseReturn(1)

SpecTraverse == InitTraverse /\ [][NextTraverse]_vars

----------------------------------------------------------------------------
(* SpecPosixify: posixify itself, on either platform, over every value      *)
(* nested at most MaxDepth deep (in Spec it runs on the results of execute) *)

\* The values are enumerated by their construction: [str |-> s] a string,
\* [null |-> TRUE] null, [arr |-> <<values>>] an array, [obj |-> <<[k |-> key,
\* v |-> value]>>] an object, under the keys 'file', 'other' and 'dep-a' (a
\* package name); Native gives the value constructed.
PathStrings == {[str |-> "a\\b"], [str |-> "a/b"]}

JsonObject(entries) == [obj |-> entries]
JsonEntry(k, v) == [k |-> k, v |-> v]

\* the values nested at most d deep
RECURSIVE JsonValues(_)
JsonValues(d) ==
    IF d = 0 THEN PathStrings \cup {[null |-> TRUE]}
    ELSE LET sub == JsonValues(d - 1)
         IN sub
            \cup {JsonObject(<<JsonEntry(k, v)>>) :
                    k \in {"file", "other", "dep-a"}, v \in sub}
            \cup {JsonObject(<<JsonEntry("file", v), JsonEntry("other", s)>>) :
                    v \in sub, s \in PathStrings}
            \cup {[arr |-> <<v>>] : v \in sub}
            \cup {[arr |-> <<v, s>>] : v \in sub, s \in PathStrings}

\* a result whose queryOutput is the value
ResultAround(queryOutput) ==
    JsonObject(<<JsonEntry("queryOutput", queryOutput),
                 JsonEntry("analyzerMeta",
                           JsonObject(<<JsonEntry("name", [str |-> "m"])>>))>>)

RECURSIVE Native(_)
Native(d) ==
    IF Has(d, "str") THEN d.str
    ELSE IF Has(d, "null") THEN Null
    ELSE IF Has(d, "arr") THEN [i \in DOMAIN d.arr |-> Native(d.arr[i])]
    ELSE [k \in {d.obj[i].k : i \in DOMAIN d.obj} |->
            LET i == CHOOSE j \in DOMAIN d.obj : d.obj[j].k = k
            IN Native(d.obj[i].v)]

InitPosixify ==
    /\ fs = ProjectMocks
    /\ astAnalysis = MockAnalysis
    /\ analyzer = EmptyObject
    /\ cache = EmptyObject
    /\ calls = [c \in 1..MaxCalls |-> Idle]
    /\ compatOut = NotChecked
    /\ platform \in {"linux", "win32"}
    /\ \E v \in JsonValues(MaxDepth) :
          posixIO = [called |-> FALSE, construction |-> ResultAround(v),
                     data |-> Native(ResultAround(v))]

\* lines 243-245 on any result: `if (win32) posixify(aResult)`
NormalizePaths ==
    /\ ~posixIO.called
    /\ posixIO' = [called |-> TRUE, construction |-> posixIO.construction,
                   data |-> posixIO.data,
                   out |-> PlatformPosixify(posixIO.data)]
    /\ UNCHANGED <<fs, astAnalysis, analyzer, cache, calls, compatOut, platform>>

NextPosixify == NormalizePaths

SpecPosixify == InitPosixify /\ [][NextPosixify]_vars

----------------------------------------------------------------------------
(* What the properties read off a call *)

CallIds == 1..MaxCalls

Returned(c) == calls[c].pc = "done"
ReturnedAs(c, kind) == Returned(c) /\ calls[c].kind = kind
Failed(c) == calls[c].pc = "failed"

\* the call went into _traverse
Traversed(c) ==
    \/ InFlight(c)
    \/ ReturnedAs(c, "final")
    \/ Failed(c) /\ calls[c].error \in {"ast", "analysis"}

IsPrefix(s, t) == Len(s) <= Len(t) /\ s = SubSeq(t, 1, Len(s))

\* the path holds a backslash
HasBackslash(v) == \E i \in 1..Len(v) : SubSeq(v, i, i) = "\\"

\* the files results name: those of the projects and the ones a finding of
\* a provided result points to
ResultFiles ==
    FileNames
    \cup {InDir(d[1], s, d[2]) : d \in {<<"src", "x.js">>, <<"lib", "a.js">>},
                                 s \in {"/", "\\"}}

\* the forward-slash name of each file
PosixName ==
    [f \in ResultFiles |->
        CHOOSE g \in ResultFiles :
            /\ ~HasBackslash(g)
            /\ Basename(g) = Basename(f)
            /\ TopDirectory(g) = TopDirectory(f)]

\* a path as a result of execute carries it: in forward-slash form on win32
AsReturned(file) == IF platform = "win32" THEN PosixName[file] ELSE file

\* a queryOutput with the files of its entries as a result carries them
FilesAsReturned(queryOutput) ==
    IF Has(queryOutput, "array")
    THEN [array |-> [i \in DOMAIN queryOutput.array |->
            [queryOutput.array[i] EXCEPT !.file = AsReturned(@)]]]
    ELSE queryOutput

\* a finding {name, rootFile: {file, specifier}, 'dep-a': {file}} as a
\* result carries it
FindingAsReturned(finding) ==
    [finding EXCEPT !.rootFile.file = AsReturned(@), !["dep-a"].file = AsReturned(@)]

\* a raw result (of find-imports) the configuration of a result keeps: its
\* targetProject is the instance's metadata object, which has lost its path,
\* and its paths, those of the findings included, are as a result carries
\* them
RawResultAsReturned(rawResult) ==
    [rawResult EXCEPT
        !.analyzerMeta.targetProject = Delete(@, "path"),
        !.queryOutput.array =
            [i \in DOMAIN @ |->
                [@[i] EXCEPT !.file = AsReturned(@),
                             !.result = [j \in DOMAIN @ |-> FindingAsReturned(@[j])]]]]

\* the packages getMonoRepoPackages can report
MonoRepos ==
    {NoMonoRepo,
     [packages |-> << [path |-> "packages/lea-tabs", name |-> "lea-tabs"] >>]}

FromCache(result) ==
    Has(result.analyzerMeta, "__fromCache") /\ result.analyzerMeta["__fromCache"]

\* the Cache Store held an entry for the call's key when the call started
HadEntry(c) == IsCached(calls[c].cacheBefore, name, calls[c].identifier)

\* d is the execute call that follows c with the same configuration
RunTwice(c, d) ==
    /\ d = c + 1
    /\ Returned(c) /\ calls[c].kind # "skip"
    /\ Returned(d)
    /\ calls[d].customConfig = calls[c].customConfig

----------------------------------------------------------------------------
(* C1 *)

\* C1: when execute is run twice in sequence with the same configuration
\* against the same Cache Store (the first call neither skipped nor failing),
\* both calls derive the same identifier and the second returns a result with
\* __fromCache = true whose queryOutput is the one the first call returned.
C1_Idempotence ==
    \A c, d \in CallIds :
        RunTwice(c, d) =>
            /\ calls[d].identifier = calls[c].identifier
            /\ FromCache(calls[d].result)
            /\ calls[d].result.queryOutput = calls[c].result.queryOutput

----------------------------------------------------------------------------
(* C2 *)

\* C2: the number of traversals for one (analyzer name, identifier) is at
\* most one: once one execute has completed traverse and finalize for a key,
\* no later execute with the same key traverses.
C2_AtMostOneTraversal ==
    \A c, d \in CallIds :
        (c < d /\ ReturnedAs(c, "final") /\ Traversed(d)) =>
            calls[d].identifier # calls[c].identifier

----------------------------------------------------------------------------
(* C3 *)

\* the result a lookup of the call's key yields in a store
LookupYields(store, c) ==
    /\ IsCached(store, name, calls[c].result.analyzerMeta.identifier)
    /\ unwindJsonResult(store[CacheKey(name, calls[c].result.analyzerMeta.identifier)])
          = calls[c].result

\* C3: when execute returns a result that went through traverse and
\* finalize, the Cache Store holds that result under (analyzerName,
\* identifier): finalize has written it before execute returns it.
C3_FinalizeWritesCache ==
    \A c \in CallIds :
        ReturnedAs(c, "final") => LookupYields(calls[c].cacheAfter, c)

----------------------------------------------------------------------------
(* C4 *)

\* the stored entry of the call's key, unwrapped and tagged
TaggedEntry(c) ==
    LET entry == calls[c].cacheBefore[CacheKey(name, calls[c].identifier)]
    IN [queryOutput |-> entry.queryOutput,
        analyzerMeta |-> ("__fromCache" :> TRUE) @@ entry.meta.analyzerMeta]

\* C4: whenever the cache lookup in prepare finds an entry for
\* (analyzerName, identifier), execute returns that entry unwrapped to
\* {queryOutput, analyzerMeta} with analyzerMeta.__fromCache = true, and in
\* that call the File Gatherer is not invoked and traverse and finalize do
\* not run; a result produced by traverse and finalize does not carry
\* __fromCache = true.
C4_CacheHitShortCircuit ==
    /\ \A c \in CallIds :
          (calls[c].pc # "idle" /\ calls[c].cacheRead /\ HadEntry(c)) =>
              /\ ReturnedAs(c, "cache")
              /\ calls[c].result = TaggedEntry(c)
              /\ FromCache(calls[c].result)
              /\ calls[c].gathered = <<>>
              /\ ~Traversed(c)
    /\ \A c \in CallIds :
          ReturnedAs(c, "final") => ~FromCache(calls[c].result)

\* a lookup found an entry with findings and the call returned it
C4_Witness ==
    \E c \in CallIds :
        /\ calls[c].pc # "idle" /\ calls[c].cacheRead /\ HadEntry(c)
        /\ Returned(c)
        /\ Len(calls[c].result.queryOutput.array) > 0

----------------------------------------------------------------------------
(* C5 *)

DeclaredRanges(pkg, depName) ==
    {e[2] : e \in {x \in Range(DepEntries(pkg, "dependencies"))
                         \cup Range(DepEntries(pkg, "devDependencies")) :
                     x[1] = depName}}

\* C5: checkForMatchCompatibility returns {compatible: false, reason:
\* 'no-dependency'} when the reference's name is in neither the target's
\* dependencies nor its devDependencies (whatever the versions); otherwise
\* {compatible: false, reason: 'no-matched-version'} when the reference's
\* version does not satisfy the range the target declares for that name;
\* otherwise {compatible: true}.
C5_CompatibilityGating ==
    compatOut.called =>
        LET ranges == DeclaredRanges(fs["/t"], fs["/r"].name)
            version == fs["/r"].version
            verdict == compatOut.verdict
        IN /\ ranges = {} =>
                verdict = [compatible |-> FALSE, reason |-> "no-dependency"]
           /\ (ranges # {} /\ \A r \in ranges : ~semver_satisfies(version, r)) =>
                verdict = [compatible |-> FALSE, reason |-> "no-matched-version"]
           /\ (ranges # {} /\ \A r \in ranges : semver_satisfies(version, r)) =>
                verdict = [compatible |-> TRUE]
           /\ ranges # {} =>
                verdict \in {[compatible |-> FALSE, reason |-> "no-matched-version"],
                             [compatible |-> TRUE]}

\* the name is declared in devDependencies only, with a range the version
\* misses
C5_Witness ==
    /\ compatOut.called
    /\ DeclaredRanges(fs["/t"], fs["/r"].name) # {}
    /\ FindFrom(DepEntries(fs["/t"], "dependencies"), fs["/r"].name, 1) = 0
    /\ compatOut.verdict = [compatible |-> FALSE, reason |-> "no-matched-version"]

----------------------------------------------------------------------------
(* C6 *)

\* the checker, run on the call's paths, reports incompatible
ReportsIncompatible(cfg) ==
    /\ ~checkForMatchCompatibilityThrows(cfg.referenceProjectPath, cfg.targetProjectPath)
    /\ ~checkForMatchCompatibility(cfg.referenceProjectPath,
                                   cfg.targetProjectPath).compatible

IsSkipResult(result) ==
    /\ DOMAIN result = {"queryOutput", "analyzerMeta"}
    /\ result.queryOutput \in {[string |-> "[no-dependency]"],
                               [string |-> "[no-matched-version]"]}
    /\ {"name", "requiredAst", "identifier", "configuration"}
          \subseteq DOMAIN result.analyzerMeta
    /\ \A monoPkgs \in MonoRepos :
          getExtendDocsQueryOutputs(<<result>>, monoPkgs) = <<>>

\* C6: execute returns a skip-result (queryOutput '[no-dependency]' or
\* '[no-matched-version]', in the normal AnalyzerQueryResult shape) exactly
\* when referenceProjectPath is present, skipCheckMatchCompatibility is not
\* set and the compatibility checker reports incompatible; in that call the
\* Cache Store is neither read nor written, the File Gatherer is not invoked
\* and no traversal runs.  When skipCheckMatchCompatibility is set the
\* checker is not run and no skip-result is produced.
C6_SkipResult ==
    \A c \in CallIds :
        calls[c].pc # "idle" =>
            LET cfg == WithDefaults(calls[c].customConfig)
                flag == Has(cfg, "skipCheckMatchCompatibility")
                       /\ cfg.skipCheckMatchCompatibility
                expected == /\ cfg.referenceProjectPath # Null
                            /\ ~flag
                            /\ ReportsIncompatible(cfg)
            IN /\ ReturnedAs(c, "skip") <=> expected
               /\ ReturnedAs(c, "skip") =>
                    /\ IsSkipResult(calls[c].result)
                    /\ calls[c].result.queryOutput =
                          SkipOutput(checkForMatchCompatibility(
                              cfg.referenceProjectPath, cfg.targetProjectPath).reason)
                    /\ ~calls[c].cacheRead
                    /\ calls[c].cacheAfter = calls[c].cacheBefore
                    /\ calls[c].gathered = <<>>
                    /\ ~Traversed(c)
               /\ flag => ~calls[c].compatChecked /\ ~ReturnedAs(c, "skip")
               /\ Returned(c) /\ calls[c].kind # "skip" =>
                    ~Has(calls[c].result.queryOutput, "string")

\* a skipped pair, after a call in which the flag let an incompatible pair
\* through to finalize
C6_Witness ==
    \E c, d \in CallIds :
        /\ ReturnedAs(c, "final")
        /\ Has(calls[c].customConfig, "skipCheckMatchCompatibility")
        /\ ReportsIncompatible(WithDefaults(calls[c].customConfig))
        /\ ReturnedAs(d, "skip")
        /\ calls[d].result.queryOutput = [string |-> "[no-matched-version]"]
        /\ cache # EmptyObject

----------------------------------------------------------------------------
(* C7 *)

NoMachinePaths(result) ==
    LET meta == result.analyzerMeta
    IN /\ ~Has(meta.configuration, "targetProjectPath")
       /\ ~Has(meta.configuration, "referenceProjectPath")
       /\ Has(meta, "targetProject") => ~Has(meta.targetProject, "path")
       /\ Has(meta, "referenceProject") => ~Has(meta.referenceProject, "path")

\* C7: every AnalyzerQueryResult returned by execute (a skip-result, a cache
\* hit or finalize's result) has an analyzerMeta.configuration without
\* targetProjectPath and without referenceProjectPath, and its
\* analyzerMeta.targetProject and analyzerMeta.referenceProject, when
\* present, have no path.  (The Cache Store holds reports of results as
\* _finalize returns them.)
C7_Sanitized ==
    \A c \in CallIds : Returned(c) => NoMachinePaths(calls[c].result)

\* a skip-result, after a result of finalize, both with both projects; the
\* metadata on the instance came from the manifests
C7_Witness ==
    \E c, d \in CallIds :
        /\ ReturnedAs(c, "final") /\ ReturnedAs(d, "skip")
        /\ \A x \in {c, d} :
              /\ Has(calls[x].result.analyzerMeta, "targetProject")
              /\ Has(calls[x].result.analyzerMeta, "referenceProject")
              /\ ~Has(calls[x].customConfig, "targetProjectResult")
              /\ ~Has(calls[x].customConfig, "referenceProjectResult")

----------------------------------------------------------------------------
(* C8 *)

\* the project a configuration names by a path: its manifest's name and
\* version
ProjectAt(cfg, key) ==
    IF cfg[key] = Null THEN <<"none">>
    ELSE <<"project", fs[cfg[key]].name, fs[cfg[key]].version>>

\* two configurations that differ at most in filesystem locations
SameApartFromLocations(cfgA, cfgB) ==
    /\ Delete(Delete(cfgA, "targetProjectPath"), "referenceProjectPath")
          = Delete(Delete(cfgB, "targetProjectPath"), "referenceProjectPath")
    /\ \A key \in {"targetProjectPath", "referenceProjectPath"} :
          /\ cfgA[key] # Null => ManifestReadable(cfgA[key])
          /\ cfgB[key] # Null => ManifestReadable(cfgB[key])
          /\ ProjectAt(cfgA, key) = ProjectAt(cfgB, key)

\* C8: two execute calls whose target and reference projects have the same
\* manifest name and version and whose configuration is the same apart from
\* filesystem locations derive the same identifier.
C8_PathIndependence ==
    \A c, d \in DOMAIN calls :
        (/\ Has(calls[c], "identifier") /\ Has(calls[d], "identifier")
         /\ SameApartFromLocations(WithDefaults(calls[c].customConfig),
                                   WithDefaults(calls[d].customConfig))) =>
            calls[c].identifier = calls[d].identifier

----------------------------------------------------------------------------
(* C9 *)

\* the entry {file, meta, result} of the i-th discovered file
EntryOfFile(c, i) ==
    LET file == calls[c].projectData.entries[i].file[2]
    IN [file |-> file, meta |-> astAnalysis[file].meta,
        result |-> astAnalysis[file].result]

\* the positions, in discovery order, of the files with a non-empty result
NonEmptyPositions(c) ==
    {i \in 1..Len(calls[c].projectData.entries) : EntryOfFile(c, i).result # <<>>}

\* C9: the queryOutput traverse produces is the subsequence, in discovery
\* order, of the entries {file, meta, result} whose result is non-empty: none
\* with an empty result, none with a non-empty result missing, no two
\* reordered.
C9_OrderedFilteredOutput ==
    \A c \in CallIds :
        calls[c].pc = "finalize" =>
            LET out == calls[c].queryOutput.array
                kept == NonEmptyPositions(c)
            IN /\ Len(out) = Cardinality(kept)
               /\ \A k \in 1..Len(out) :
                     \E i \in kept :
                        /\ Cardinality({j \in kept : j < i}) = k - 1
                        /\ out[k] = EntryOfFile(c, i)

\* the spec's example: an empty result first, then two non-empty ones
C9_Witness ==
    \E c \in CallIds :
        /\ calls[c].pc = "finalize"
        /\ Len(calls[c].projectData.entries) = 3
        /\ NonEmptyPositions(c) = {2, 3}
        /\ Len(calls[c].queryOutput.array) = 2

----------------------------------------------------------------------------
(* C10 *)

\* C10: an execute call that aborts with an error (manifest unreadable
\* during metadata resolution or compatibility checking, AST construction
\* failure, an error thrown by the per-file analysis) yields no result and
\* leaves the Cache Store, for its own key and every other, as it was before
\* the call.
C10_FailedRunLeavesNoEntry ==
    \A c \in CallIds :
        (calls[c].pc # "idle" /\ Has(calls[c], "error")) =>
            /\ Failed(c)
            /\ ~Has(calls[c], "result")
            /\ calls[c].cacheAfter = calls[c].cacheBefore

\* an analysis threw in a call made while the store held an entry
C10_Witness ==
    \E c \in CallIds :
        /\ Failed(c) /\ calls[c].error = "analysis"
        /\ calls[c].cacheBefore # EmptyObject
        /\ cache = calls[c].cacheBefore

----------------------------------------------------------------------------
(* C11 *)

\* b is a in forward-slash form: a with its backslashes replaced by slashes
ForwardSlashForm(b, a) ==
    /\ Len(b) = Len(a)
    /\ ~HasBackslash(b)
    /\ \A i \in 1..Len(a) :
          SubSeq(b, i, i) = IF SubSeq(a, i, i) = "\\" THEN "/" ELSE SubSeq(a, i, i)

\* out is what the normalization is to leave of the value constructed as d,
\* a value held directly under the key 'file' (underFile) or held otherwise
\* (under another key, in an array)
RECURSIVE NormalizedAs(_, _, _)
NormalizedAs(d, out, underFile) ==
    IF Has(d, "str")
    THEN IF platform = "win32" /\ underFile
         THEN ForwardSlashForm(out, d.str) ELSE out = d.str
    ELSE IF Has(d, "null") THEN out = Null
    ELSE IF Has(d, "arr")
    THEN /\ DOMAIN out = DOMAIN d.arr
         /\ \A i \in DOMAIN d.arr : NormalizedAs(d.arr[i], out[i], FALSE)
    ELSE /\ DOMAIN out = {d.obj[i].k : i \in DOMAIN d.obj}
         /\ \A i \in DOMAIN d.obj :
               NormalizedAs(d.obj[i].v, out[d.obj[i].k], d.obj[i].k = "file")

\* C11: on win32, after the path normalization of a result every string held
\* directly under a key named 'file', at any nesting depth of objects
\* (whatever their keys) and arrays, is in forward-slash form (its
\* backslashes replaced by slashes), and every value under any other key,
\* strings with backslashes included, is as it was; on another platform no
\* value is changed.
C11_PathNormalization ==
    posixIO.called =>
        /\ NormalizedAs(posixIO.construction, posixIO.out, FALSE)
        /\ platform # "win32" => posixIO.out = posixIO.data

\* on win32: under the key 'dep-a', in an array, an object whose backslash
\* path under 'file' was rewritten and whose backslash string under 'other'
\* was kept
C11_Witness ==
    /\ posixIO.called
    /\ platform = "win32"
    /\ posixIO.construction =
          ResultAround(JsonObject(<<JsonEntry("dep-a",
              [arr |-> << JsonObject(<<JsonEntry("file", [str |-> "a\\b"]),
                                       JsonEntry("other", [str |-> "a\\b"])>>) >>])>>))
    /\ posixIO.data.queryOutput["dep-a"][1].file = "a\\b"
    /\ posixIO.out.queryOutput["dep-a"][1].file = "a/b"
    /\ posixIO.out.queryOutput["dep-a"][1].other = "a\\b"

----------------------------------------------------------------------------
(* C12 *)

RawResults(configuration) ==
    DOMAIN configuration \cap {"targetProjectResult", "referenceProjectResult"}

\* C12: in a normalized result (a skip-result or finalize's), if the
\* configuration handed over held referenceProjectResult, that is removed and
\* targetProjectResult, if any, is kept (it is the raw result handed over:
\* its targetProject, which is the metadata object the instance holds for
\* the target, is without its path, and on win32 the paths under a key 'file'
\* below it are in forward-slash form, C11); otherwise, if it held
\* targetProjectResult, that is removed.  So the configuration of every
\* result execute returns holds at most one of the two, and never
\* referenceProjectResult.
C12_RawResultStripping ==
    \A c \in CallIds :
        Returned(c) =>
            LET given == calls[c].cfg
                configuration == calls[c].result.analyzerMeta.configuration
            IN /\ calls[c].kind \in {"skip", "final"} =>
                    /\ Has(given, "referenceProjectResult") =>
                          RawResults(configuration)
                              = RawResults(given) \ {"referenceProjectResult"}
                    /\ ~Has(given, "referenceProjectResult") =>
                          RawResults(configuration) = {}
                    /\ Has(configuration, "targetProjectResult") =>
                          configuration.targetProjectResult
                              = RawResultAsReturned(given.targetProjectResult)
               /\ Cardinality(RawResults(configuration)) <= 1
               /\ ~Has(configuration, "referenceProjectResult")

\* finalize's result, on win32, of a call given both raw results: the
\* target's is kept, the file of a finding in it and the file held in the
\* object under the key 'dep-a' rewritten, and the path of its targetProject
\* gone; the reference's is gone
C12_Witness ==
    \E c \in CallIds :
        /\ ReturnedAs(c, "final")
        /\ platform = "win32"
        /\ RawResults(calls[c].cfg) = {"targetProjectResult", "referenceProjectResult"}
        /\ RawResults(calls[c].result.analyzerMeta.configuration)
              = {"targetProjectResult"}
        /\ LET given == calls[c].cfg.targetProjectResult
               kept == calls[c].result.analyzerMeta.configuration.targetProjectResult
           IN /\ given.queryOutput.array[1].result[1].rootFile.file = "src\\x.js"
              /\ kept.queryOutput.array[1].result[1].rootFile.file = "src/x.js"
              /\ given.queryOutput.array[1].result[1]["dep-a"].file = "lib\\a.js"
              /\ kept.queryOutput.array[1].result[1]["dep-a"].file = "lib/a.js"
              /\ Has(given.analyzerMeta.targetProject, "path")
              /\ ~Has(kept.analyzerMeta.targetProject, "path")

----------------------------------------------------------------------------
(* C13 *)

\* the moves of the lifecycle of an execute call
LifecycleMoves ==
    {<<"Idle", "Preparing">>,
     <<"Preparing", "ShortCircuited">>, <<"Preparing", "Traversing">>,
     <<"Traversing", "Finalizing">>,
     <<"Finalizing", "Done">>}

\* the phase a call is in
Phase(call) == call.phases[Len(call.phases)]

\* the step takes the call into the phase
Enters(before, after, phase) ==
    phase \notin Range(before.phases) /\ phase \in Range(after.phases)

\* the configuration of a result, given the configuration handed over:
\* without the locations and the stripped raw result, a kept raw result as
\* a result carries it
ConfigurationAsReturned(given) ==
    LET stripped == IF Has(given, "referenceProjectResult")
                    THEN {"referenceProjectResult"}
                    ELSE {"targetProjectResult"}
    IN [k \in DOMAIN given \ ({"targetProjectPath", "referenceProjectPath"}
                                \cup stripped) |->
            IF k = "targetProjectResult" THEN RawResultAsReturned(given[k])
            ELSE given[k]]

\* what a step does to call c
C13_Step(c) ==
    LET before == calls[c]
        after == calls'[c]
    IN \* the lifecycle moves on along its moves, or stays (for good when the
       \* call has failed)
       /\ IsPrefix(before.phases, after.phases)
       /\ after.phases[1] = "Idle"
       /\ \A i \in 1..(Len(after.phases) - 1) :
             <<after.phases[i], after.phases[i + 1]>> \in LifecycleMoves
       /\ Failed(c) => after = before
       /\ Has(after, "result") <=> Phase(after) \in {"ShortCircuited", "Done"}
       \* traverse starts only after prepare returned no result: neither a
       \* skip-result nor a cached one
       /\ Enters(before, after, "Traversing") =>
             /\ ~Has(after, "result")
             /\ ~IsCached(cache, name, after.identifier)
             /\ after.compatChecked =>
                   ~ReportsIncompatible(WithDefaults(after.customConfig))
       \* traverse hands over its queryOutput only when every file has been
       \* analysed, and the call is still traversing then
       /\ (~Has(before, "queryOutput") /\ Has(after, "queryOutput")
              /\ "Traversing" \in Range(after.phases)) =>
             /\ Phase(after) = "Traversing"
             /\ Len(before.entries) = Len(before.projectData.entries)
             /\ after.queryOutput.array
                  = SelectSeq(before.entries, LAMBDA e : e.result # <<>>)
       \* finalize starts only after traverse produced the complete queryOutput
       /\ Enters(before, after, "Finalizing") =>
             /\ Phase(before) = "Traversing"
             /\ Has(before, "queryOutput")
             /\ Len(before.entries) = Len(before.projectData.entries)
             /\ before.queryOutput.array
                  = SelectSeq(before.entries, LAMBDA e : e.result # <<>>)
       \* execute returns finalize's result for that queryOutput and config:
       \* the queryOutput and the config as a result carries them, under the
       \* identifier of the call's prepare, with the projects the instance
       \* holds
       /\ Enters(before, after, "Done") =>
             LET meta == after.result.analyzerMeta
             IN /\ DOMAIN after.result = {"queryOutput", "analyzerMeta"}
                /\ after.result.queryOutput = FilesAsReturned(before.queryOutput)
                /\ DOMAIN meta =
                      {"name", "requiredAst", "identifier", "configuration"}
                      \cup {"targetProject" : x \in DOMAIN analyzer \cap {"targetProjectMeta"}}
                      \cup {"referenceProject" :
                              x \in DOMAIN analyzer \cap {"referenceProjectMeta"}}
                /\ meta.name = "match-paths"
                /\ meta.requiredAst = "babel"
                /\ meta.identifier = before.identifier
                /\ meta.configuration = ConfigurationAsReturned(before.cfg)
                /\ Has(meta, "targetProject") =>
                      meta.targetProject = Delete(analyzer.targetProjectMeta, "path")
                /\ Has(meta, "referenceProject") =>
                      meta.referenceProject = Delete(analyzer.referenceProjectMeta, "path")

\* C13: within one execute call the lifecycle only moves Idle -> Preparing ->
\* {ShortCircuited | Traversing} -> Finalizing -> Done (a call that fails
\* stays in the phase it failed in); traverse starts only after prepare has
\* returned no result, finalize starts only after traverse has produced the
\* complete queryOutput, and the value execute returns on this path is
\* finalize's result for that queryOutput and config.
C13_PhaseOrdering == [][\A c \in CallIds : C13_Step(c)]_vars

\* one call went through all of Idle, Preparing, Traversing, Finalizing and
\* Done, on win32, and returned a file of a directory in forward-slash form;
\* another was short-circuited by the cache, and a third phase was never
\* entered by it
C13_Witness ==
    \E c, d \in CallIds :
        /\ calls[c].phases = <<"Idle", "Preparing", "Traversing", "Finalizing", "Done">>
        /\ ReturnedAs(c, "final")
        /\ platform = "win32"
        /\ \E i \in DOMAIN calls[c].result.queryOutput.array :
              calls[c].result.queryOutput.array[i].file = "sub/f2.js"
        /\ calls[d].phases = <<"Idle", "Preparing", "ShortCircuited">>
        /\ ReturnedAs(d, "cache")

----------------------------------------------------------------------------
(* C14 *)

\* the files of the call's project, in discovery order
DiscoveryOrder(call) ==
    [i \in 1..Len(call.projectData.entries) |-> call.projectData.entries[i].file]

\* what a step does to the analyses of call c
C14_Step(c) ==
    LET before == calls[c]
        after == calls'[c]
        invokedBefore == IF before.pc = "analyze" THEN before.invoked ELSE <<>>
    IN /\ after.pc = "analyze" =>
             \* in discovery order, at most one in flight
             /\ IsPrefix(after.invoked, DiscoveryOrder(after))
             /\ Len(after.entries) <= Len(after.invoked)
             /\ Len(after.invoked) <= Len(after.entries) + 1
             \* the analysis of a further file is invoked only once all the
             \* analyses invoked before have resumed with their entries pushed
             /\ IsPrefix(invokedBefore, after.invoked)
             /\ Len(after.invoked) <= Len(invokedBefore) + 1
             /\ Len(after.invoked) = Len(invokedBefore) + 1 =>
                   Len(after.entries) = Len(invokedBefore)
       \* after an analysis failed none is invoked: the loop is left for good
       /\ (before.pc = "analyze" /\ after.pc = "failed") => ~Has(after, "invoked")
       /\ before.pc = "failed" => after = before

\* C14: during one traversal the analysis of file i+1 is not invoked until
\* the analysis of file i has completed, the analyses are invoked in
\* discovery order, at most one analysis of the traversal is in flight at any
\* time, and after an analysis fails no later file's analysis is invoked.
C14_SequentialAnalysis == [][\A c \in CallIds : C14_Step(c)]_vars

\* the analysis of a third file is in flight, the first two have completed
C14_Witness ==
    \E c \in CallIds :
        /\ calls[c].pc = "analyze"
        /\ Len(calls[c].invoked) = 3
        /\ Len(calls[c].entries) = 2

----------------------------------------------------------------------------
(* C15 *)

\* the call's prepare looked its key up and found nothing
CacheMiss(c) == calls[c].pc # "idle" /\ calls[c].cacheRead /\ ~HadEntry(c)

\* the File Gatherer invocation for the project at `path`
Gathering(path, config) == [path |-> path, config |-> config]

\* the invocation for the reference, when a reference path was given
ReferenceGathering(cfg) ==
    IF cfg.referenceProjectPath = Null THEN <<>>
    ELSE << Gathering(cfg.referenceProjectPath,
                      IF Has(cfg, "gatherFilesConfigReference")
                      THEN cfg.gatherFilesConfigReference
                      ELSE cfg.gatherFilesConfig) >>

\* C15: whenever prepare reaches a cache miss it invokes the File Gatherer
\* for the target with gatherFilesConfig, always, and, exactly when a
\* reference path was given, for the reference with gatherFilesConfigReference
\* if supplied and with gatherFilesConfig otherwise; the gatherer is invoked
\* on no other path through prepare.
C15_Gathering ==
    \A c \in CallIds :
        calls[c].pc # "idle" =>
            LET cfg == WithDefaults(calls[c].customConfig)
            IN calls[c].gathered =
                 IF CacheMiss(c)
                 THEN << Gathering(cfg.targetProjectPath, cfg.gatherFilesConfig) >>
                      \o ReferenceGathering(cfg)
                 ELSE <<>>

----------------------------------------------------------------------------
(* C16 *)

\* the call's result was built by the normalizer (a skip-result or finalize's)
Normalized(c) == Returned(c) /\ Has(calls[c], "formatted")

\* C16 as claimed: normalization leaves every object passed to it unchanged:
\* the config object, the queryOutput and its entries, and the project
\* metadata held for the target and the reference are the same after the
\* call as before it.
C16_PureAsClaimed ==
    \A c \in CallIds :
        Normalized(c) =>
            /\ calls[c].formatted.configurationAfter = calls[c].formatted.configuration
            /\ calls[c].formatted.queryOutputAfter = calls[c].formatted.queryOutput
            /\ calls[c].formatted.metaAfter = calls[c].formatted.metaBefore

\* C16, amended: normalization sanitizes in place.  The result is made of
\* the objects handed in: its queryOutput is the queryOutput, its
\* configuration the config object, its targetProject and referenceProject
\* the project metadata objects the instance holds.  After the call the
\* config object has lost targetProjectPath, referenceProjectPath and one
\* raw result (referenceProjectResult if it held one, else
\* targetProjectResult if it held one); the metadata objects have lost their
\* path, also where a raw result the config object keeps holds one as its
\* targetProject; and on win32 every string held under a key 'file' in the
\* queryOutput and in the config object is in forward-slash form.  Nothing
\* else in them is changed.
C16_InPlaceNormalization ==
    \A c \in CallIds :
        Normalized(c) =>
            LET f == calls[c].formatted
                meta == calls[c].result.analyzerMeta
            IN /\ calls[c].result.queryOutput = f.queryOutputAfter
               /\ meta.configuration = f.configurationAfter
               /\ Has(f.metaAfter, "targetProjectMeta") =>
                     meta.targetProject = f.metaAfter.targetProjectMeta
               /\ Has(f.metaAfter, "referenceProjectMeta") =>
                     meta.referenceProject = f.metaAfter.referenceProjectMeta
               /\ f.queryOutputAfter = FilesAsReturned(f.queryOutput)
               /\ f.configurationAfter = ConfigurationAsReturned(f.configuration)
               /\ DOMAIN f.metaAfter = DOMAIN f.metaBefore
               /\ \A k \in DOMAIN f.metaBefore :
                     f.metaAfter[k] = Delete(f.metaBefore[k], "path")

\* on win32: finalize's result of a call with both projects, whose metadata
\* held a path and whose queryOutput held a backslash path before the
\* normalization; and a skip-result of a call given both raw results: in
\* the one the configuration keeps, the targetProject held a path and the
\* object under 'dep-a' a backslash path before the normalization
C16_Witness ==
    \E c, d \in CallIds :
        /\ platform = "win32"
        /\ ReturnedAs(c, "final")
        /\ DOMAIN calls[c].formatted.metaBefore
              = {"targetProjectMeta", "referenceProjectMeta"}
        /\ \A k \in DOMAIN calls[c].formatted.metaBefore :
              Has(calls[c].formatted.metaBefore[k], "path")
        /\ calls[c].formatted.configuration.referenceProjectPath # Null
        /\ \E i \in DOMAIN calls[c].formatted.queryOutput.array :
              /\ calls[c].formatted.queryOutput.array[i].file = "sub\\f2.js"
              /\ calls[c].formatted.queryOutputAfter.array[i].file = "sub/f2.js"
        /\ ReturnedAs(d, "skip")
        /\ Has(calls[d].formatted.configurationAfter, "targetProjectResult")
        /\ LET given == calls[d].formatted.configuration.targetProjectResult
               kept == calls[d].formatted.configurationAfter.targetProjectResult
           IN /\ Has(given.analyzerMeta.targetProject, "path")
              /\ ~Has(kept.analyzerMeta.targetProject, "path")
              /\ given.queryOutput.array[1].result[1]["dep-a"].file = "lib\\a.js"
              /\ kept.queryOutput.array[1].result[1]["dep-a"].file = "lib/a.js"

----------------------------------------------------------------------------
(* C17 *)

\* the call was given no reference project, by path or by result
NoReferenceGiven(c) ==
    /\ ~Has(calls[c].customConfig, "referenceProjectPath")
    /\ ~Has(calls[c].customConfig, "referenceProjectResult")

\* C17: over a sequence of execute calls on one Analyzer instance, the
\* identifier and the targetProject / referenceProject metadata of a call's
\* result are determined by that call's config: calls with the same config
\* derive the same identifier, and a call given neither referenceProjectPath
\* nor referenceProjectResult derives its identifier with no reference
\* project and returns a result without analyzerMeta.referenceProject,
\* whatever reference an earlier call on the instance used.
C17_NoLeakage ==
    /\ \A c, d \in CallIds :
          (/\ Has(calls[c], "identifier") /\ Has(calls[d], "identifier")
           /\ calls[c].customConfig = calls[d].customConfig) =>
              calls[c].identifier = calls[d].identifier
    /\ \A c \in CallIds :
          (calls[c].pc # "idle" /\ NoReferenceGiven(c)) =>
              /\ Has(calls[c], "identifier") => Len(calls[c].identifier.projects) = 1
              /\ Normalized(c) =>
                    ~Has(calls[c].result.analyzerMeta, "referenceProject")

----------------------------------------------------------------------------
(* C18 *)

\* the files of finalize's queryOutput, in order
OutputFiles(result) ==
    [i \in 1..Len(result.queryOutput.array) |-> result.queryOutput.array[i].file]

\* the files of the project at `path` whose analysis finds something, among
\* those the configuration lets through, as a result names them
FilesWithFindings(path, config) ==
    LET kept == SelectSeq(GatheredFiles(path, config),
                          LAMBDA f : astAnalysis[f.name].result # <<>>)
    IN [i \in 1..Len(kept) |-> AsReturned(kept[i].name)]

\* C18: when an execute(config B) starts on an Analyzer instance while an
\* execute(config A) is suspended in its traversal, the result returned for
\* each call carries the identifier its own prepare derived, the metadata of
\* its own target project and the queryOutput of its own target's files.
C18_NoMixing ==
    \A c \in CallIds :
        (ReturnedAs(c, "final") /\ ~Has(calls[c].customConfig, "targetProjectResult")) =>
            LET target == calls[c].customConfig.targetProjectPath
                meta == calls[c].result.analyzerMeta
            IN /\ meta.identifier = calls[c].identifier
               /\ meta.targetProject = [name |-> fs[target].name,
                                        version |-> fs[target].version]
               /\ Has(meta, "referenceProject")
                     <=> Has(calls[c].customConfig, "referenceProjectPath")
               /\ OutputFiles(calls[c].result)
                     = FilesWithFindings(target, calls[c].customConfig.gatherFilesConfig)

----------------------------------------------------------------------------
(* C19 *)

\* C19: in every execute call that reaches traverse, the file data handed to
\* the AST provider and traversed is the data the File Gatherer returned for
\* this call's targetProjectPath during this call's prepare: never data left
\* on the instance by an earlier call and never unset data, also when the
\* config supplies targetProjectResult.
C19_TraversesOwnData ==
    \A c \in CallIds :
        LET cfg == WithDefaults(calls[c].customConfig)
        IN /\ calls[c].pc = "ast" =>
                /\ Has(calls[c], "astInput")
                /\ calls[c].gathered # <<>>
                /\ calls[c].gathered[1].path = cfg.targetProjectPath
                /\ calls[c].astInput
                     = createDataObject(<<cfg.targetProjectPath>>, cfg.gatherFilesConfig)
           /\ calls[c].pc = "analyze" =>
                /\ calls[c].projectData.project.path = cfg.targetProjectPath
                /\ \A i \in DOMAIN calls[c].projectData.entries :
                      calls[c].projectData.entries[i].file[1] = cfg.targetProjectPath

----------------------------------------------------------------------------
(* C20 *)

\* the ranges an object of the manifest declares for the name
RangesIn(pkg, key, depName) ==
    {e[2] : e \in {x \in Range(DepEntries(pkg, key)) : x[1] = depName}}

VerdictFor(version, range) ==
    IF semver_satisfies(version, range) THEN [compatible |-> TRUE]
    ELSE [compatible |-> FALSE, reason |-> "no-matched-version"]

\* C20: when the reference's name is declared in the target's
\* devDependencies, the verdict is decided by the devDependencies range
\* alone, whatever dependencies declares for it; the dependencies range is
\* consulted only when the name is absent from devDependencies.
C20_DevDependenciesFirst ==
    compatOut.called =>
        LET dev == RangesIn(fs["/t"], "devDependencies", fs["/r"].name)
            regular == RangesIn(fs["/t"], "dependencies", fs["/r"].name)
        IN /\ dev # {} =>
                \A r \in dev : compatOut.verdict = VerdictFor(fs["/r"].version, r)
           /\ (dev = {} /\ regular # {}) =>
                \A r \in regular : compatOut.verdict = VerdictFor(fs["/r"].version, r)

\* the name is declared in both objects; the devDependencies range rejects
\* the version that the dependencies range accepts
C20_Witness ==
    /\ compatOut.called
    /\ \E d \in RangesIn(fs["/t"], "devDependencies", fs["/r"].name) :
       \E r \in RangesIn(fs["/t"], "dependencies", fs["/r"].name) :
          /\ ~semver_satisfies(fs["/r"].version, d)
          /\ semver_satisfies(fs["/r"].version, r)
    /\ compatOut.verdict = [compatible |-> FALSE, reason |-> "no-matched-version"]

====
